---- MODULE Spec2Model ----
(***************************************************************************)
(* Model of crates/lunar/src/conv.rs: the conversion between civil dates   *)
(* (jiff::civil::Date, named Greg in the source) and Rata Die day numbers  *)
(* (RataDie(u64)).                                                         *)
(*                                                                         *)
(* A u64 is kept as an integer representative: x >= 0 stands for x itself, *)
(* x < 0 stands for 2^64 + x (a value that wrapped around below zero).     *)
(* Rust's arithmetic overflow either panics (overflow checks on, the debug *)
(* profile) or wraps (overflow checks off, the release profile); the       *)
(* variable `checks` is the profile of the build.                          *)
(***************************************************************************)
EXTENDS Integers, Sequences, FiniteSets, TLC

VARIABLES checks, greg, greg2, fwd, fwd2, rata, back, pc

vars == <<checks, greg, greg2, fwd, fwd2, rata, back, pc>>

(***************************************************************************)
(* Bounds of the model.                                                    *)
(***************************************************************************)
\* Years 1 - BceYears .. 0 are the BCE years of the model.
BceYears == 2
\* Years 1 .. EarlyYears: the first years of the common era.
EarlyYears == 8
\* Years 1752 - SwitchWindow .. 1752 + SwitchWindow surround the switch.
SwitchWindow == 2
\* Day numbers 0 .. EarlyCount are decoded directly.
EarlyCount == 1500
\* Day numbers within CountWindow of each anchor are decoded directly.
CountWindow == 40

(***************************************************************************)
(* jiff::civil::Date: the proleptic Gregorian calendar, years -9999..9999. *)
(***************************************************************************)
MinYear == 0 - 9999
MaxYear == 9999

IsLeapYear(y) == y % 4 = 0 /\ (y % 100 # 0 \/ y % 400 = 0)

DaysInYear(y) == IF IsLeapYear(y) THEN 366 ELSE 365

DaysInMonth(y, m) ==
    IF m = 2 THEN (IF IsLeapYear(y) THEN 29 ELSE 28)
    ELSE IF m \in {4, 6, 9, 11} THEN 30 ELSE 31

RECURSIVE DaysBeforeMonth(_, _)
DaysBeforeMonth(y, m) ==
    IF m = 1 THEN 0 ELSE DaysBeforeMonth(y, m - 1) + DaysInMonth(y, m - 1)

Date(y, m, d) == [year |-> y, month |-> m, day |-> d]

\* Date::day_of_year, 1-based.
DayOfYear(g) == DaysBeforeMonth(g.year, g.month) + g.day

\* #[derive(Ord)] on (year, month, day).
DateLT(a, b) ==
    \/ a.year < b.year
    \/ a.year = b.year /\ a.month < b.month
    \/ a.year = b.year /\ a.month = b.month /\ a.day < b.day

DateLE(a, b) == a = b \/ DateLT(a, b)

\* Date::era_year: year <= 0 is BCE, with era year 1 - year.
EraOf(g) == IF g.year >= 1 THEN "CE" ELSE "BCE"

EraYear(g) == IF g.year >= 1 THEN g.year ELSE 1 - g.year

\* The date of day number doy (1-based) of year y.
FromOrdinal(y, doy) ==
    LET m == CHOOSE k \in 1..12 :
                 DaysBeforeMonth(y, k) < doy
                 /\ doy <= DaysBeforeMonth(y, k) + DaysInMonth(y, k)
    IN Date(y, m, doy - DaysBeforeMonth(y, m))

(***************************************************************************)
(* u64 and i16 arithmetic.                                                 *)
(***************************************************************************)
\* Unsigned comparison of two representatives.
GtU64(a, b) == IF (a < 0) = (b < 0) THEN a > b ELSE a < 0

\* Long division of a base-256 number (most significant limb first) by d:
\* the remainder, and the quotient modulo 2^16.
RECURSIVE LongDiv(_, _, _, _)
LongDiv(limbs, d, r, q) ==
    IF limbs = << >> THEN [q |-> q, r |-> r]
    ELSE LET cur == r * 256 + Head(limbs)
         IN LongDiv(Tail(limbs), d, cur % d, ((q * 256) + (cur \div d)) % 65536)

\* 2^64 divided by d.
Pow64Div(d) == LongDiv(<<1, 0, 0, 0, 0, 0, 0, 0, 0>>, d, 0, 0)

\* x % d on u64.
ModU64(x, d) == IF x >= 0 THEN x % d ELSE (Pow64Div(d).r + x) % d

\* x / d on u64. A quotient of a wrapped value does not fit the model's
\* integers: it is kept modulo 2^16 and offset by 2^16. It is read only by
\* the test yy != 0 and by the cast yy as i16, which this preserves.
DivU64(x, d) ==
    IF x >= 0 THEN x \div d
    ELSE 65536 + ((Pow64Div(d).q + ((Pow64Div(d).r + x) \div d)) % 65536)

\* x as i16.
AsI16(x) == LET m == x % 65536 IN IF m >= 32768 THEN m - 65536 ELSE m

(***************************************************************************)
(* impl TryFrom<Greg> for RataDie                                          *)
(***************************************************************************)
ADJStart == Date(1752, 9, 2)
ADJEnd == Date(1752, 9, 14)

ADJContainsExclusive(g) == DateLT(ADJStart, g) /\ DateLT(g, ADJEnd)

\* ADJ.contains(&greg) on the RangeInclusive.
ADJContains(g) == DateLE(ADJStart, g) /\ DateLE(g, ADJEnd)

Ok(r) == [kind |-> "Ok", rata |-> r]
Err(k) == [kind |-> k, rata |-> 0]

GregorianAdjNo400(r, py) == r - py \div 100

\* rata -= py / 100; rata += py / 400.
GregorianAdj(r, py) == (r - py \div 100) + py \div 400

JulianAdjOne(r, chk) ==
    IF r < 1 THEN (IF chk THEN Err("Overflow") ELSE Ok(r - 1)) ELSE Ok(r - 1)

\* rata -= 2, which underflows when rata < 2.
JulianAdj(r, chk) ==
    IF r < 2 THEN (IF chk THEN Err("Overflow") ELSE Ok(r - 2)) ELSE Ok(r - 2)

TryFrom(g, chk) ==
    IF EraOf(g) # "CE" THEN Err("Era")
    ELSE IF ADJContains(g) THEN Err("Adj")
    ELSE LET py == EraYear(g) - 1
             r == 365 * py + py \div 4 + DayOfYear(g)
         IN IF DateLT(ADJStart, g) THEN Ok(GregorianAdj(r, py))
            ELSE JulianAdj(r, chk)

(***************************************************************************)
(* impl From<RataDie> for Greg                                             *)
(***************************************************************************)
\* const ADJ: RataDie = RataDie(639795).
ADJRata == 639795

\* The block / remainder decomposition of l0 with 400-year blocks of c400
\* days and 100-year blocks of c100 days.
Decompose(l0, c400, c100) ==
    LET day1 == ModU64(l0, c400)
        day2 == day1 % c100
        d3 == day2 % 1461
    IN [ovf |-> FALSE, n400 |-> DivU64(l0, c400), n100 |-> day1 \div c100,
        n4 |-> day2 \div 1461, n1 |-> d3 \div 365, dd |-> d3 % 365]

\* The arithmetic panicked before the decomposition.
Overflowed == [ovf |-> TRUE, n400 |-> 0, n100 |-> 0, n4 |-> 0, n1 |-> 0, dd |-> 0]

\* The decomposition From computes for day number r: l0 = rata.0 - 1
\* underflows for r = 0, and l0 += 2 then overflows back.
Blocks(r, chk) ==
    IF r = 0 /\ chk THEN Overflowed
    ELSE LET l0 == r - 1
         IN IF GtU64(r, ADJRata) THEN Decompose(l0, 146097, 36524)
            ELSE IF l0 < 0 /\ l0 + 2 >= 0 /\ chk THEN Overflowed
            ELSE Decompose(l0 + 2, 146100, 36525)

TotalYearsNoN1(b) == 400 * b.n400 + 100 * b.n100 + 4 * b.n4

\* yy = 400 * n400 + 100 * n100 + 4 * n4 + n1.
TotalYears(b) == 400 * b.n400 + 100 * b.n100 + 4 * b.n4 + b.n1

\* The leap-block edge: n100 == 4 || n1 == 4.
EdgeCase(b) == b.n100 = 4 \/ b.n1 = 4

Back(k, d) == [kind |-> k, date |-> d]
NoDate == Date(0, 0, 0)

\* Greg::new(year, 01, 01).unwrap() + day.days().
NewPlusDays(year, day) ==
    IF year < MinYear \/ year > MaxYear THEN Back("Unwrap", NoDate)
    ELSE IF day < DaysInYear(year) THEN Back("Ok", FromOrdinal(year, day + 1))
    ELSE IF year + 1 > MaxYear THEN Back("DateOverflow", NoDate)
    ELSE Back("Ok", FromOrdinal(year + 1, day - DaysInYear(year) + 1))

From(r, chk) ==
    LET b == Blocks(r, chk)
    IN IF b.ovf THEN Back("Overflow", NoDate)
       ELSE LET yy == TotalYears(b)
            IN IF EdgeCase(b) /\ yy = 0 THEN Back("Abort", NoDate)
               ELSE LET dd == IF EdgeCase(b) THEN 365 ELSE b.dd
                    IN NewPlusDays(AsI16(yy + 1), AsI16(dd))

(***************************************************************************)
(* Inputs.                                                                 *)
(***************************************************************************)
\* Century years, the years of the regression test, the last leap year and
\* the last year of the calendar.
MarkedYears == {100, 1600, 1700, 1800, 1900, 2000, 2024, 2025, 9996, 9999}

Years ==
    ((1 - BceYears)..EarlyYears)
    \cup ((1752 - SwitchWindow)..(1752 + SwitchWindow))
    \cup MarkedYears

Dates ==
    {g \in [year : Years, month : 1..12, day : 1..31] :
        g.day <= DaysInMonth(g.year, g.month)}

\* Day numbers of 01 Sep 1752, 31 Dec 2000, 26 Oct 2025 and 31 Dec 9999.
Anchors == {ADJRata, 730485, 739550, 3652059}

DayCounts ==
    (0..EarlyCount)
    \cup UNION {(a - CountWindow)..(a + CountWindow) : a \in Anchors}

None == [kind |-> "None", rata |-> 0]
NoBack == Back("None", NoDate)

Init ==
    /\ checks \in BOOLEAN
    /\ greg = NoDate
    /\ greg2 = NoDate
    /\ fwd = None
    /\ fwd2 = None
    /\ rata = 0
    /\ back = NoBack
    /\ pc = "idle"

\* RataDie::try_from(greg).
Encode ==
    /\ pc = "idle"
    /\ \E g \in Dates :
        /\ greg' = g
        /\ fwd' = TryFrom(g, checks)
    /\ pc' = "encoded"
    /\ UNCHANGED <<checks, greg2, fwd2, rata, back>>

\* Greg::from(rata) of the day number try_from returned.
Decode ==
    /\ pc = "encoded"
    /\ fwd.kind = "Ok"
    /\ rata' = fwd.rata
    /\ back' = From(fwd.rata, checks)
    /\ pc' = "roundtrip"
    /\ UNCHANGED <<checks, greg, greg2, fwd, fwd2>>

\* Greg::from(RataDie(r)) of any day number.
DecodeAny ==
    /\ pc = "idle"
    /\ \E r \in DayCounts :
        /\ rata' = r
        /\ back' = From(r, checks)
    /\ pc' = "decoded"
    /\ UNCHANGED <<checks, greg, greg2, fwd, fwd2>>

Next == Encode \/ Decode \/ DecodeAny

Spec == Init /\ [][Next]_vars

(***************************************************************************)
(* Two conversions, for the claims that compare two dates.                 *)
(***************************************************************************)
\* The dates at the year, leap-day and switch boundaries.
PairDates ==
    {g \in Dates :
        \/ g.month = 1 /\ g.day <= 2
        \/ g.month = 2 /\ g.day >= 28
        \/ g.month = 3 /\ g.day = 1
        \/ g.month = 12 /\ g.day = 31
        \/ g.year = 1752 /\ g.month = 9}

\* RataDie::try_from of a first date.
EncodeFirst ==
    /\ pc = "idle"
    /\ \E g \in PairDates :
        /\ greg' = g
        /\ fwd' = TryFrom(g, checks)
    /\ pc' = "first"
    /\ UNCHANGED <<checks, greg2, fwd2, rata, back>>

\* RataDie::try_from of a second date.
EncodeSecond ==
    /\ pc = "first"
    /\ \E g \in PairDates :
        /\ greg2' = g
        /\ fwd2' = TryFrom(g, checks)
    /\ pc' = "second"
    /\ UNCHANGED <<checks, greg, fwd, rata, back>>

PairNext == EncodeFirst \/ EncodeSecond

PairSpec == Init /\ [][PairNext]_vars

(***************************************************************************)
(* The claims.                                                             *)
(***************************************************************************)
\* 02 Sep 1752 .. 14 Sep 1752, both ends included.
InInvalidInterval(g) == g.year = 1752 /\ g.month = 9 /\ g.day \in 2..14

\* A CE date outside the invalid interval.
Valid(g) == g.year >= 1 /\ ~InInvalidInterval(g)

Sep01 == Date(1752, 9, 1)
Sep15 == Date(1752, 9, 15)
Oct26 == Date(2025, 10, 26)

\* C1: round trip. For every CE date outside 02..14 Sep 1752, converting
\* the day number try_from returned back with From yields the same date.
C1_RoundTrip ==
    pc = "roundtrip" /\ Valid(greg) => back = Back("Ok", greg)

\* C2: strict monotonicity. For valid CE dates d1 < d2 the day number of d1
\* is below the day number of d2 (as the u64 values RataDie orders by).
C2_Monotonic ==
    (/\ pc = "second"
     /\ Valid(greg) /\ Valid(greg2) /\ DateLT(greg, greg2)
     /\ fwd.kind = "Ok" /\ fwd2.kind = "Ok")
    => GtU64(fwd2.rata, fwd.rata)

\* C3: the inverse conversion is total. Every day number, and every day
\* number try_from returned, is decoded to a date without a panic.
C3_InverseTotal == pc \in {"decoded", "roundtrip"} => back.kind = "Ok"

\* C4: the forward conversion of a valid CE date returns Ok with a day
\* number that did not wrap around, and never panics.
C4_ForwardNoFault ==
    pc = "encoded" /\ Valid(greg) => fwd.kind = "Ok" /\ fwd.rata >= 0

\* A leap year of the calendar in force: Julian before 1752, Gregorian after.
LeapInRegime(y) == IF y < 1752 THEN y % 4 = 0 ELSE IsLeapYear(y)

\* C5: leap-block edge. The day number of 31 Dec of a leap year Y decodes to
\* 31 Dec Y, not to a date of a later year.
C5_LeapBlockEdge ==
    (/\ pc = "roundtrip"
     /\ greg.year >= 1 /\ greg.year # 1752 /\ LeapInRegime(greg.year)
     /\ greg.month = 12 /\ greg.day = 31)
    => back = Back("Ok", greg)

\* C6 as stated: 01 Sep 1752 and 15 Sep 1752 both convert, and the day
\* number of 15 Sep 1752 is the day number of 01 Sep 1752 plus 1.
C6_SwitchContiguous ==
    pc = "second" /\ greg = Sep01 /\ greg2 = Sep15
    => fwd.kind = "Ok" /\ fwd2.kind = "Ok" /\ fwd2.rata = fwd.rata + 1

\* C6 amended: 01 Sep 1752 and 15 Sep 1752 both convert, to 639795 and to
\* 639798: the day number of 15 Sep 1752 is that of 01 Sep 1752 plus 3.
C6_SwitchGapThree ==
    pc = "second" /\ greg = Sep01 /\ greg2 = Sep15
    => fwd = Ok(639795) /\ fwd2 = Ok(639798) /\ fwd2.rata = fwd.rata + 3

C6_Witness ==
    pc = "second" /\ greg = Sep01 /\ greg2 = Sep15 /\ fwd2.kind = "Ok"

ProlepticDays(g) ==
    365 * (g.year - 1)
    + Cardinality({y \in 1..(g.year - 1) : IsLeapYear(y)})
    + (DayOfYear(g) - 1)

\* C8: Gregorian anchoring. From 15 Sep 1752 on, the day number of a date is
\* 1 plus its proleptic Gregorian day count from 01 Jan of year 1; 26 Oct
\* 2025 has day number 739550, and 739550 decodes to 26 Oct 2025.
C8_GregorianAnchoring ==
    /\ (pc = "encoded" /\ DateLE(Sep15, greg)
            => fwd = Ok(1 + ProlepticDays(greg)))
    /\ (pc = "encoded" /\ greg = Oct26 => fwd = Ok(739550))
    /\ (pc \in {"decoded", "roundtrip"} /\ rata = 739550
            => back = Back("Ok", Oct26))

C8_Witness ==
    pc = "roundtrip" /\ greg = Oct26 /\ rata = 739550 /\ back.date = Oct26

\* The day numbers of the model and the wrapped value 2^64 - 1.
AllDayCounts == DayCounts \cup {0 - 1}

\* C9 as stated: some day number makes From, as built, take its panic!()
\* branch, with n100 == 4 or n1 == 4 and total years 0.
C9_AbortReachable ==
    \E r \in AllDayCounts :
        LET b == Blocks(r, checks)
        IN ~b.ovf /\ EdgeCase(b) /\ TotalYears(b) = 0
           /\ From(r, checks).kind = "Abort"

\* C9 amended: no day number makes From take its panic!() branch: whenever
\* n100 == 4 or n1 == 4, the total years are not 0.
C9_AbortUnreachable ==
    pc \in {"decoded", "roundtrip"} =>
        /\ back.kind # "Abort"
        /\ LET b == Blocks(rata, checks)
           IN ~b.ovf /\ EdgeCase(b) => TotalYears(b) # 0

C9_Witness ==
    /\ pc = "decoded"
    /\ rata = 1459
    /\ Blocks(rata, checks).n1 = 4
    /\ back.kind = "Ok"

\* C10: regime agreement. A date on or before 01 Sep 1752 gets a day number
\* of at most 639795 and a date on or after 15 Sep 1752 a day number above
\* 639795, so From decodes with the constants of the regime try_from used.
C10_RegimeAgreement ==
    pc = "encoded" /\ fwd.kind = "Ok" =>
        /\ (DateLE(greg, Sep01) => ~GtU64(fwd.rata, ADJRata))
        /\ (DateLE(Sep15, greg) => GtU64(fwd.rata, ADJRata))

====
